---- MODULE Spec2Model ----
(***************************************************************************)
(* Server-side coordination layer of EmotiveChatFlow: MemStorage           *)
(* (server/storage.ts) and registerRoutes (server/routes.ts), both found   *)
(* in src/client/src/pages/chat.tsx.                                       *)
(*                                                                         *)
(* The server runs on the Node.js event loop.  Every handler is a          *)
(* macrotask; an `await` suspends the handler and queues its continuation  *)
(* as a microtask.  Microtasks run, in FIFO order, before the next         *)
(* macrotask starts.  The only events that can be dispatched while         *)
(* continuations are pending are further frames of the same socket chunk,  *)
(* which the ws receiver hands over synchronously, and further requests of *)
(* the same chunk of a pipelining HTTP client.                             *)
(*                                                                         *)
(* The peer of a connection may be the Chat page (client/src/pages/        *)
(* chat.tsx): its message list, its query of GET /api/messages and the     *)
(* frames on their way to it are the variable page.                        *)
(***************************************************************************)
EXTENDS Integers, Sequences, FiniteSets, TLC

\* ---------------------------------------------------------------- bounds
NumConns == 2        \* transport handles that may ever be accepted
MaxMessages == 2     \* successful submissions
MaxJoins == 2        \* join frames handled over all connections
MaxCloses == 1       \* connections whose transport ever leaves OPEN
MaxTime == 1         \* ticks of the wall clock
MaxRejects == 1      \* rejected submissions
MaxInputs == 4       \* external events: accepts, joins, submissions, closes, ticks
MaxTokens == 2       \* fragments a classified text is put together from

Conns == 1..NumConns
MessageIds == 1..(MaxMessages + 1)

Undefined == "undefined"     \* the JavaScript value undefined

\* ---------------------------------------------------------------- texts
\* A text is a sequence of one-character strings.
ToLowerChar(ch) ==
    CASE ch = "A" -> "a" [] ch = "B" -> "b" [] ch = "C" -> "c" [] ch = "D" -> "d" [] ch = "E" -> "e" [] ch = "F" -> "f"
      [] ch = "G" -> "g" [] ch = "H" -> "h" [] ch = "I" -> "i" [] ch = "J" -> "j" [] ch = "K" -> "k" [] ch = "L" -> "l"
      [] ch = "M" -> "m" [] ch = "N" -> "n" [] ch = "O" -> "o" [] ch = "P" -> "p" [] ch = "Q" -> "q" [] ch = "R" -> "r"
      [] ch = "S" -> "s" [] ch = "T" -> "t" [] ch = "U" -> "u" [] ch = "V" -> "v" [] ch = "W" -> "w" [] ch = "X" -> "x"
      [] ch = "Y" -> "y" [] ch = "Z" -> "z"
      [] OTHER -> ch

toLowerCase(text) == [i \in 1..Len(text) |-> ToLowerChar(text[i])]

\* String.prototype.includes
includes(text, word) ==
    \E i \in 0..(Len(text) - Len(word)) :
        \A j \in 1..Len(word) : text[i + j] = word[j]

positiveWords ==
  << <<"h","a","p","p","y">>,
     <<"l","o","v","e">>,
     <<"g","r","e","a","t">>,
     <<"a","w","e","s","o","m","e">>,
     <<"w","o","n","d","e","r","f","u","l">>,
     <<"e","x","c","e","l","l","e","n","t">>,
     <<"a","m","a","z","i","n","g">>,
     <<"f","a","n","t","a","s","t","i","c">>,
     <<"g","o","o","d">>,
     <<"n","i","c","e">> >>

negativeWords ==
  << <<"s","a","d">>,
     <<"a","n","g","r","y">>,
     <<"b","a","d">>,
     <<"t","e","r","r","i","b","l","e">>,
     <<"a","w","f","u","l">>,
     <<"h","a","t","e">>,
     <<"h","o","r","r","i","b","l","e">>,
     <<"d","i","s","g","u","s","t","i","n","g">>,
     <<"w","o","r","s","t">>,
     <<"a","n","n","o","y","i","n","g">> >>

some(words, text) == \E k \in 1..Len(words) : includes(text, words[k])

\* a classifier that answers positive as soon as a positive word is found
analyzeSentimentPositiveFirst(text) ==
    LET lowerText == toLowerCase(text)
    IN  IF some(positiveWords, lowerText) THEN "positive"
        ELSE IF some(negativeWords, lowerText) THEN "negative"
        ELSE "neutral"

analyzeSentiment(text) ==
    LET lowerText == toLowerCase(text)
        hasPositive == some(positiveWords, lowerText)
        hasNegative == some(negativeWords, lowerText)
    IN  IF hasPositive /\ ~hasNegative THEN "positive"
        ELSE IF hasNegative /\ ~hasPositive THEN "negative"
        ELSE IF hasPositive /\ hasNegative THEN "neutral"
        ELSE "neutral"

TextHappy == <<"S","o"," ","H","A","P","P","Y">>
TextBadge == <<"b","a","d","g","e">>
TextBoth == <<"L","o","v","e"," ","i","t",","," ","h","a","t","e"," ","i","t">>
TextPlain == <<"o","k">>

\* Fragments of message texts: words of both lists in mixed case, parts of
\* words that make a listed word only when put together, and filler.
Tokens ==
    { <<"H","a","p","p","y">>, <<"L","O","V","E">>, <<"b","a","d">>,
      <<"h","a","t","e">>, <<"g","e">>, <<" ">>, <<"o","k">>, <<"s","a">>, <<"d">> }

RECURSIVE Flatten(_)
Flatten(parts) == IF parts = << >> THEN << >> ELSE Head(parts) \o Flatten(Tail(parts))

\* the texts of one to MaxTokens fragments
ClassifyTexts ==
    { Flatten(parts) : parts \in UNION { [1..n -> Tokens] : n \in 1..MaxTokens } }

\* ---------------------------------------------------------------- inputs
\* Bodies of POST /api/message.  A field the body lacks is absent from the record.
SubmitBodies ==
    { [userId |-> "u1", username |-> "Alice", text |-> TextHappy],
      [userId |-> "u2", username |-> "Bob",   text |-> TextBadge],
      [userId |-> "u1", username |-> "Alice"],
      [userId |-> "u1", username |-> "Alice", text |-> << >>] }

\* Frames a peer may send on the real-time channel.  A frame with the field
\* malformed is not JSON; every other frame is the object JSON.parse returns,
\* and a field the object lacks is absent from the record.
Frames ==
    { [type |-> "join", userId |-> "u1", username |-> "Alice"],
      [type |-> "join", userId |-> "u2", username |-> "Bob"],
      [type |-> "join", userId |-> "u1"],
      [type |-> "ping"],
      [malformed |-> TRUE] }

\* obj.name: the value of a property, undefined when the object lacks it
Field(obj, name) == IF name \in DOMAIN obj THEN obj[name] ELSE Undefined

\* JavaScript truthiness of a string-or-undefined value
Truthy(v) == v # Undefined /\ v # ""

\* ---------------------------------------------------------------- state
VARIABLES
    messages,          \* MemStorage.messages: Map in insertion order, a sequence of Message
    currentMessageId,  \* MemStorage.currentMessageId
    clients,           \* the Set of registered connections
    readyState,        \* ws.readyState of every handle ("NONE" before accept)
    wsUserId,          \* ws.userId
    wsUsername,        \* ws.username
    timers,            \* pending setTimeout tasks in expiry order, each holding its message
    microtasks,        \* continuations of suspended handlers, FIFO
    msgEvents,         \* history: per message id, the broadcast() calls about it, in call order
    connEvents,        \* history: per connection, the ws.send / broadcast() calls of its handlers
    responses,         \* every HTTP response of POST /api/message, in order
    now,               \* the wall clock read by new Date()
    joins,             \* join frames handled so far
    rejects,           \* submissions rejected so far
    page               \* per connection, the Chat page at the other end, if the peer is one

vars == << messages, currentMessageId, clients, readyState, wsUserId, wsUsername,
           timers, microtasks, msgEvents, connEvents, responses, now, joins, rejects,
           page >>

\* ---------------------------------------------------------------- MemStorage
NoMessage ==
    [id |-> 0, userId |-> Undefined, username |-> Undefined, text |-> << >>,
     sentiment |-> Undefined, createdAt |-> 0]

\* Map.prototype.get: the value stored under key id, or NoMessage (undefined)
MapGet(map, id) ==
    IF \E i \in 1..Len(map) : map[i].id = id
    THEN map[CHOOSE i \in 1..Len(map) : map[i].id = id]
    ELSE NoMessage

\* a set that deletes an existing key first, so the entry moves to the end
MapSetMoveToEnd(map, id, value) ==
    Append(SelectSeq(map, LAMBDA m : m.id # id), value)

\* Map.prototype.set: an existing key keeps its place, a new key is appended
MapSet(map, id, value) ==
    IF \E i \in 1..Len(map) : map[i].id = id
    THEN [i \in 1..Len(map) |-> IF map[i].id = id THEN value ELSE map[i]]
    ELSE Append(map, value)

\* a createMessage that stores the message as already analysed
NewMessageNeutral(insertMessage, id, time) ==
    [id |-> id, userId |-> insertMessage.userId, username |-> insertMessage.username,
     text |-> insertMessage.text, sentiment |-> "neutral", createdAt |-> time]

\* the Message createMessage builds from the validated body
NewMessage(insertMessage, id, time) ==
    [id |-> id, userId |-> insertMessage.userId, username |-> insertMessage.username,
     text |-> insertMessage.text, sentiment |-> "pending", createdAt |-> time]

\* a sort that is not stable: an element goes in front of the elements equal to it
RECURSIVE InsertSortedTiesFirst(_, _)
InsertSortedTiesFirst(sorted, m) ==
    IF sorted = << >> THEN << m >>
    ELSE IF Head(sorted).createdAt - m.createdAt >= 0
         THEN << m >> \o sorted
         ELSE << Head(sorted) >> \o InsertSortedTiesFirst(Tail(sorted), m)

\* Array.prototype.sort with (a, b) => a.createdAt - b.createdAt: a stable sort
RECURSIVE InsertSorted(_, _)
InsertSorted(sorted, m) ==
    IF sorted = << >> THEN << m >>
    ELSE IF Head(sorted).createdAt - m.createdAt > 0
         THEN << m >> \o sorted
         ELSE << Head(sorted) >> \o InsertSorted(Tail(sorted), m)

RECURSIVE SortByCreatedAt(_)
SortByCreatedAt(arr) ==
    IF arr = << >> THEN << >>
    ELSE InsertSorted(SortByCreatedAt(SubSeq(arr, 1, Len(arr) - 1)), arr[Len(arr)])

\* a getMessages that leaves out the messages still pending
RECURSIVE getMessagesAnalyzed(_)
getMessagesAnalyzed(map) ==
    IF map = << >> THEN << >>
    ELSE IF Head(map).sentiment = "pending" THEN getMessagesAnalyzed(Tail(map))
         ELSE << Head(map) >> \o getMessagesAnalyzed(Tail(map))

\* a getMessages that returns the most recent message only
getMessagesLastOnly(map) ==
    IF map = << >> THEN << >> ELSE << SortByCreatedAt(map)[Len(map)] >>

getMessages(map) == SortByCreatedAt(map)

\* an update that builds a new record and stamps it with the current time
updateMessageSentimentRestamp(map, id, sentiment) ==
    IF MapGet(map, id) # NoMessage
    THEN MapSet(map, id, [MapGet(map, id) EXCEPT !.sentiment = sentiment, !.createdAt = now])
    ELSE map

\* an update that relabels the oldest stored message, whatever the id
updateMessageSentimentOldest(map, id, sentiment) ==
    IF map = << >> THEN map
    ELSE [i \in 1..Len(map) |-> IF i = 1 THEN [map[i] EXCEPT !.sentiment = sentiment] ELSE map[i]]

\* an update that forgets the key and relabels every stored message
updateMessageSentimentAll(map, id, sentiment) ==
    [i \in 1..Len(map) |-> [map[i] EXCEPT !.sentiment = sentiment]]

\* the store after updateMessageSentiment(id, sentiment)
updateMessageSentiment(map, id, sentiment) ==
    IF MapGet(map, id) # NoMessage
    THEN MapSet(map, id, [MapGet(map, id) EXCEPT !.sentiment = sentiment])
    ELSE map

\* an update that looks the message up under the next key and finds nothing
updatedMessageOfWrongKey(map, id, sentiment) ==
    IF MapGet(map, id + 1) # NoMessage
    THEN [MapGet(map, id + 1) EXCEPT !.sentiment = sentiment]
    ELSE NoMessage

\* an update that answers with a record even when the id is not stored
updatedMessageOfUpsert(map, id, sentiment) ==
    [MapGet(map, id) EXCEPT !.sentiment = sentiment]

\* what updateMessageSentiment(id, sentiment) returns
updatedMessageOf(map, id, sentiment) ==
    IF MapGet(map, id) # NoMessage
    THEN [MapGet(map, id) EXCEPT !.sentiment = sentiment]
    ELSE NoMessage

\* ---------------------------------------------------------------- routes
\* insertMessageSchema.parse(req.body) returns (TRUE) or throws (FALSE): the
\* three fields are required and text is not empty
insertMessageSchemaParses(body) ==
    /\ "userId" \in DOMAIN body
    /\ "username" \in DOMAIN body
    /\ "text" \in DOMAIN body
    /\ body.text # << >>

\* JSON.parse(data.toString()) throws on a payload that is not JSON
JSONParseThrows(data) == "malformed" \in DOMAIN data

\* a broadcast() that leaves out the readyState test and writes to every
\* registered connection
AllClients(registry) == registry

\* the connections broadcast() writes to: registered and OPEN
OpenClients(registry) == {c \in registry : readyState[c] = "OPEN"}

\* a broadcast() that skips the connection whose handler called it
broadcastToOthers(registry, data, by) ==
    data @@ [to |-> OpenClients(registry) \ {by.ws}, reg |-> registry, by |-> by]

\* broadcast(data): one log entry; to = the connections the event was sent to,
\* reg = the registry at the moment of the call, by = the handler that called
broadcast(registry, data, by) ==
    data @@ [to |-> OpenClients(registry), reg |-> registry, by |-> by]

\* a snapshot handed to broadcast() instead of ws.send()
wsSendToAll(ws, data, by) ==
    data @@ [to |-> {c \in clients : readyState[c] = "OPEN"}, reg |-> clients, by |-> by]

\* ws.send(data) on one connection: delivered only while the transport is OPEN
\* (ws drops a send on a CLOSING or CLOSED socket without throwing)
wsSend(ws, data, by) ==
    data @@ [to |-> IF readyState[ws] = "OPEN" THEN {ws} ELSE {},
             reg |-> clients, by |-> by]

\* the value of clients.size the join handler reports
JoinOnlineCount == Cardinality(clients)

\* a removal by index that takes out some other element when ws is not there
\* (splice(indexOf(ws), 1) with indexOf = -1)
clientsDeleteByIndex(registry, ws) ==
    IF ws \in registry \/ registry = {} THEN registry \ {ws}
    ELSE registry \ {CHOOSE d \in registry : \A e \in registry : e <= d}

\* clients.delete(ws): Set.prototype.delete, no effect when ws is not in the Set
clientsDelete(registry, ws) == registry \ {ws}

\* a close handler that reads clients.size before clients.delete(ws)
CloseOnlineCountBeforeDelete(ws) == Cardinality(clients)

\* the value of clients.size the close handler reports, after clients.delete(ws)
CloseOnlineCount(ws) == Cardinality(clientsDelete(clients, ws))

\* connections whose transport has left OPEN
Left == {c \in Conns : readyState[c] \in {"CLOSING", "CLOSED"}}

\* connections accepted so far
Accepts == {c \in Conns : readyState[c] # "NONE"}

\* external events so far
Inputs ==
    Cardinality(Accepts) + joins + rejects + now + (currentMessageId - 1)
        + Cardinality(Left)
MoreInput == Inputs < MaxInputs

\* No continuation is pending: the event loop may start the next macrotask.
Idle == microtasks = << >>

\* The ws receiver may hand over the next frame of the chunk it is parsing on
\* connection c: only continuations of that chunk's own handlers are pending.
CanDispatchOn(c) ==
    \A i \in 1..Len(microtasks) : microtasks[i].kind = "join" /\ microtasks[i].ws = c

\* The HTTP parser may hand over the next request of the chunk it is parsing:
\* only continuations of HTTP handlers are pending.
CanHandleRequest ==
    \A i \in 1..Len(microtasks) : microtasks[i].kind \in {"post", "get"}

\* ---------------------------------------------------------------- Chat page
\* The peer of the connection is not a Chat page: nothing is kept about it.
NoPage ==
    [mounted |-> FALSE, messages |-> << >>, status |-> "idle", data |-> << >>,
     inbox |-> << >>]

\* The Chat page right after handleJoinChat: currentUser is set and the join
\* screen is gone, so the WebSocket is being opened and the query of
\* /api/messages is enabled and fetching; messages is still [].
\* status and data are the query (data is initialMessages once status is
\* "success", and the body of the response before that); inbox holds the
\* frames written to the socket that ws.onmessage has not been called for.
FreshPage ==
    [mounted |-> TRUE, messages |-> << >>, status |-> "fetching", data |-> << >>,
     inbox |-> << >>]

\* the frames of events reach the socket of every connection they were sent to
Deliver(pg, events) ==
    [c \in Conns |->
        IF pg[c].mounted
        THEN [pg[c] EXCEPT !.inbox = @ \o SelectSeq(events, LAMBDA e : c \in e.to)]
        ELSE pg[c]]

Init ==
    /\ messages = << >>
    /\ currentMessageId = 1
    /\ clients = {}
    /\ readyState = [c \in Conns |-> "NONE"]
    /\ wsUserId = [c \in Conns |-> Undefined]
    /\ wsUsername = [c \in Conns |-> Undefined]
    /\ timers = << >>
    /\ microtasks = << >>
    /\ msgEvents = [id \in MessageIds |-> << >>]
    /\ connEvents = [c \in Conns |-> << >>]
    /\ responses = << >>
    /\ now = 0
    /\ joins = 0
    /\ rejects = 0
    /\ page = [c \in Conns |-> NoPage]

\* wss.on('connection'): handles are numbered in the order they are accepted
Connect(c) ==
    /\ Idle
    /\ readyState[c] = "NONE"
    /\ \A d \in Conns : d < c => readyState[d] # "NONE"
    /\ MoreInput
    /\ readyState' = [readyState EXCEPT ![c] = "OPEN"]
    /\ clients' = clients \cup {c}
    /\ UNCHANGED << page, messages, currentMessageId, wsUserId, wsUsername, timers,
                    microtasks, msgEvents, connEvents, responses, now, joins, rejects >>

\* ws.on('message'), up to the await of storage.getMessages()
WsMessage(c, data) ==
    /\ readyState[c] = "OPEN"
    /\ CanDispatchOn(c)
    /\ IF ~JSONParseThrows(data) /\ Field(data, "type") = "join"
       THEN /\ joins < MaxJoins
            /\ MoreInput
            /\ joins' = joins + 1
            /\ wsUserId' = [wsUserId EXCEPT ![c] = Field(data, "userId")]
            /\ wsUsername' = [wsUsername EXCEPT ![c] = Field(data, "username")]
            /\ microtasks' = Append(microtasks,
                   [kind |-> "join", ws |-> c, message |-> data,
                    recentMessages |-> getMessages(messages)])
       ELSE UNCHANGED << wsUserId, wsUsername, microtasks, joins >>
    /\ UNCHANGED << page, messages, currentMessageId, clients, readyState, timers,
                    msgEvents, connEvents, responses, now, rejects >>

\* a join handler that announces the join before it sends the snapshot
JoinEventsAnnounceFirst(snapshot, joined) == << joined, snapshot >>

\* the two events of the join handler in the order it emits them: first
\* ws.send(initial_messages), then broadcast(user_joined)
JoinEvents(snapshot, joined) == << snapshot, joined >>

\* a join handler that registers the connection, as an accept does
RegistryAfterJoinAdds(ws) == clients \cup {ws}

\* the registry after the join handler: it calls neither clients.add nor clients.delete
RegistryAfterJoin(ws) == clients

\* ws.on('message') after the await: the snapshot to the joiner, then user_joined
JoinResume ==
    /\ microtasks # << >>
    /\ Head(microtasks).kind = "join"
    /\ LET k == Head(microtasks)
           by == [handler |-> "join", ws |-> k.ws, store |-> messages]
           events == JoinEvents(
                  wsSend(k.ws, [type |-> "initial_messages",
                                messages |-> k.recentMessages], by),
                  broadcast(clients, [type |-> "user_joined",
                                      username |-> Field(k.message, "username"),
                                      onlineCount |-> JoinOnlineCount], by))
       IN  /\ connEvents' = [connEvents EXCEPT ![k.ws] = @ \o events]
           /\ page' = Deliver(page, events)
    /\ clients' = RegistryAfterJoin(Head(microtasks).ws)
    /\ microtasks' = Tail(microtasks)
    /\ UNCHANGED << messages, currentMessageId, readyState, wsUserId,
                    wsUsername, timers, msgEvents, responses, now, joins, rejects >>

\* The transport of c stops being OPEN (a close frame of the peer, or the socket
\* ending) before its 'close' event is emitted: readyState is CLOSING.
TransportClosing(c) ==
    /\ readyState[c] = "OPEN"
    /\ Cardinality(Left) < MaxCloses
    /\ MoreInput
    /\ CanDispatchOn(c)
    /\ readyState' = [readyState EXCEPT ![c] = "CLOSING"]
    /\ UNCHANGED << page, messages, currentMessageId, clients, wsUserId, wsUsername,
                    timers, microtasks, msgEvents, connEvents, responses, now, joins, rejects >>

\* ws.on('error'): ws has left OPEN when it emits 'error'
WsError(c) ==
    /\ readyState[c] = "OPEN"
    /\ Cardinality(Left) < MaxCloses
    /\ MoreInput
    /\ CanDispatchOn(c)
    /\ readyState' = [readyState EXCEPT ![c] = "CLOSING"]
    /\ clients' = clientsDelete(clients, c)
    /\ UNCHANGED << page, messages, currentMessageId, wsUserId, wsUsername, timers,
                    microtasks, msgEvents, connEvents, responses, now, joins, rejects >>

\* a close handler that clears the pending timers when the last client leaves
TimersAfterCloseCleared(ws) == IF clients \ {ws} = {} THEN << >> ELSE timers

\* the pending timers after the close handler: it calls no clearTimeout
TimersAfterClose(ws) == timers

\* ws.on('close'): emitted once per connection, with readyState CLOSED
WsClose(c) ==
    /\ Idle
    /\ readyState[c] \in {"OPEN", "CLOSING"}
    /\ readyState[c] = "OPEN" => Cardinality(Left) < MaxCloses /\ MoreInput
    /\ readyState' = [readyState EXCEPT ![c] = "CLOSED"]
    /\ clients' = clientsDelete(clients, c)
    /\ IF Truthy(wsUsername[c])
       THEN LET event == broadcast(clientsDelete(clients, c),
                                   [type |-> "user_left",
                                    username |-> wsUsername[c],
                                    onlineCount |-> CloseOnlineCount(c)],
                                   [handler |-> "close", ws |-> c])
            IN  /\ connEvents' = [connEvents EXCEPT ![c] = Append(@, event)]
                /\ page' = Deliver(page, << event >>)
       ELSE UNCHANGED << connEvents, page >>
    /\ timers' = TimersAfterClose(c)
    /\ UNCHANGED << messages, currentMessageId, wsUserId, wsUsername,
                    microtasks, msgEvents, responses, now, joins, rejects >>

\* a createMessage that takes the id from the size of the Map (size || 1): the
\* second message gets the id of the first
NextMessageIdReused == IF messages = << >> THEN 1 ELSE Len(messages)

\* a createMessage that counts the ids down from the highest
NextMessageIdDescending == MaxMessages + 1 - currentMessageId

\* the id createMessage assigns: this.currentMessageId++
NextMessageId == currentMessageId

\* POST /api/message with a body the schema accepts, up to the await of
\* storage.createMessage(), whose body has run
Submit(body) ==
    /\ CanHandleRequest
    /\ insertMessageSchemaParses(body)
    /\ currentMessageId <= MaxMessages
    /\ MoreInput
    /\ LET message == NewMessage(body, NextMessageId, now)
       IN  /\ messages' = MapSet(messages, message.id, message)
           /\ microtasks' = Append(microtasks, [kind |-> "post", message |-> message])
    /\ currentMessageId' = currentMessageId + 1
    /\ UNCHANGED << page, clients, readyState, wsUserId, wsUsername, timers, msgEvents,
                    connEvents, responses, now, joins, rejects >>

\* a handler that takes the next id before it parses the body
SubmitRejectedAfterId(body) ==
    /\ CanHandleRequest
    /\ ~insertMessageSchemaParses(body)
    /\ rejects < MaxRejects
    /\ MoreInput
    /\ rejects' = rejects + 1
    /\ currentMessageId' = currentMessageId + 1
    /\ responses' = Append(responses, [status |-> 400, error |-> "Invalid message data"])
    /\ UNCHANGED << page, messages, clients, readyState, wsUserId,
                    wsUsername, timers, microtasks, msgEvents, connEvents, now, joins >>

\* POST /api/message with a body the schema rejects: the catch branch
SubmitRejected(body) ==
    /\ CanHandleRequest
    /\ ~insertMessageSchemaParses(body)
    /\ rejects < MaxRejects
    /\ MoreInput
    /\ rejects' = rejects + 1
    /\ responses' = Append(responses, [status |-> 400, error |-> "Invalid message data"])
    /\ UNCHANGED << page, messages, currentMessageId, clients, readyState, wsUserId,
                    wsUsername, timers, microtasks, msgEvents, connEvents, now, joins >>

\* POST /api/message after the await: new_message, setTimeout, res.json
PostResume ==
    /\ microtasks # << >>
    /\ Head(microtasks).kind = "post"
    /\ LET message == Head(microtasks).message
           event == broadcast(clients, [type |-> "new_message", message |-> message],
                              [handler |-> "post", ws |-> 0])
       IN  /\ msgEvents' = [msgEvents EXCEPT ![message.id] = Append(@, event)]
           /\ page' = Deliver(page, << event >>)
           /\ timers' = Append(timers, message)
           /\ responses' = Append(responses,
                  [status |-> 200, success |-> TRUE, message |-> message])
    /\ microtasks' = Tail(microtasks)
    /\ UNCHANGED << messages, currentMessageId, clients, readyState, wsUserId,
                    wsUsername, connEvents, now, joins, rejects >>

\* the setTimeout callback of one message, up to the await of
\* storage.updateMessageSentiment(), whose body has run
TimerFire ==
    /\ Idle
    /\ timers # << >>
    /\ timers' = Tail(timers)
    /\ LET message == Head(timers)
           sentiment == analyzeSentiment(message.text)
       IN  /\ messages' = updateMessageSentiment(messages, message.id, sentiment)
           /\ microtasks' = Append(microtasks,
                  [kind |-> "timer", message |-> message, sentiment |-> sentiment,
                   updatedMessage |-> updatedMessageOf(messages, message.id, sentiment)])
    /\ UNCHANGED << page, currentMessageId, clients, readyState, wsUserId, wsUsername,
                    msgEvents, connEvents, responses, now, joins, rejects >>

\* a sentiment_update that names the store's counter, not the closure's message
UpdateEventIdFromCounter(message) == currentMessageId

\* messageId of the sentiment_update event: message.id of the closure
UpdateEventId(message) == message.id

\* the setTimeout callback after the await: sentiment_update if the update found the message
TimerResume ==
    /\ microtasks # << >>
    /\ Head(microtasks).kind = "timer"
    /\ LET k == Head(microtasks)
           event == broadcast(clients, [type |-> "sentiment_update",
                                        messageId |-> UpdateEventId(k.message),
                                        sentiment |-> k.sentiment],
                              [handler |-> "timer", ws |-> 0])
       IN  IF k.updatedMessage # NoMessage
           THEN /\ msgEvents' = [msgEvents EXCEPT ![UpdateEventId(k.message)] =
                                     Append(@, event)]
                /\ page' = Deliver(page, << event >>)
           ELSE UNCHANGED << msgEvents, page >>
    /\ microtasks' = Tail(microtasks)
    /\ UNCHANGED << messages, currentMessageId, clients, readyState, wsUserId,
                    wsUsername, timers, connEvents, responses, now, joins, rejects >>

\* the wall clock advances between macrotasks
Tick ==
    /\ Idle
    /\ now < MaxTime
    /\ MoreInput
    /\ now' = now + 1
    /\ UNCHANGED << page, messages, currentMessageId, clients, readyState, wsUserId,
                    wsUsername, timers, microtasks, msgEvents, connEvents, responses, joins, rejects >>

Next ==
    \/ \E c \in Conns : Connect(c)
    \/ \E c \in Conns, data \in Frames : WsMessage(c, data)
    \/ JoinResume
    \/ \E c \in Conns : TransportClosing(c)
    \/ \E c \in Conns : WsError(c)
    \/ \E c \in Conns : WsClose(c)
    \/ \E body \in SubmitBodies : Submit(body)
    \/ \E body \in SubmitBodies : SubmitRejected(body)
    \/ PostResume
    \/ TimerFire
    \/ TimerResume
    \/ Tick

Spec == Init /\ [][Next]_vars

\* Continuations always run, and a timer that was set expires.
LiveSpec ==
    /\ Spec
    /\ WF_vars(JoinResume)
    /\ WF_vars(PostResume)
    /\ WF_vars(TimerFire)
    /\ WF_vars(TimerResume)

\* ---------------------------------------------------------------- Chat page
\* currentUser of the Chat page on connection c
PageUser(c) ==
    IF c = 1 THEN [id |-> "u1", name |-> "Alice"] ELSE [id |-> "u2", name |-> "Bob"]

\* ws.onopen of the page: the join frame, which the server handles.  onopen
\* runs once per socket, so the server gets one join frame from a page.
PageJoin(c) ==
    /\ page[c].mounted
    /\ wsUserId[c] = Undefined
    /\ WsMessage(c, [type |-> "join", userId |-> PageUser(c).id,
                     username |-> PageUser(c).name])

\* the switch of ws.onmessage applied to the message list
OnMessage(prev, data) ==
    CASE data.type = "initial_messages" -> data.messages
      [] data.type = "new_message" -> Append(prev, data.message)
      [] data.type = "sentiment_update" ->
            [i \in 1..Len(prev) |->
                IF prev[i].id = data.messageId
                THEN [prev[i] EXCEPT !.sentiment = data.sentiment]
                ELSE prev[i]]
      [] OTHER -> prev

\* the effect on [initialMessages, messages.length]: it runs after a render in
\* which one of the two changed and copies initialMessages when messages is empty
InitialMessagesEffect(before, after) ==
    IF /\ after.status = "success"
       /\ \/ before.status # "success"
          \/ before.data # after.data
          \/ Len(before.messages) # Len(after.messages)
       /\ Len(after.messages) = 0
    THEN [after EXCEPT !.messages = after.data]
    ELSE after

\* ws.onmessage for the next frame on the socket, and the render that follows
PageReceive(c) ==
    /\ page[c].mounted
    /\ page[c].inbox # << >>
    /\ LET data == Head(page[c].inbox)
           after == [page[c] EXCEPT !.inbox = Tail(@),
                                    !.messages = OnMessage(@, data)]
       IN  page' = [page EXCEPT ![c] = InitialMessagesEffect(page[c], after)]
    /\ UNCHANGED << messages, currentMessageId, clients, readyState, wsUserId,
                    wsUsername, timers, microtasks, msgEvents, connEvents,
                    responses, now, joins, rejects >>

\* GET /api/messages for the query of the page on c, up to the await of
\* storage.getMessages(), whose body has run
GetMessages(c) ==
    /\ CanHandleRequest
    /\ page[c].mounted
    /\ page[c].status = "fetching"
    /\ page' = [page EXCEPT ![c].status = "pending"]
    /\ microtasks' = Append(microtasks,
           [kind |-> "get", page |-> c, messages |-> getMessages(messages)])
    /\ UNCHANGED << messages, currentMessageId, clients, readyState, wsUserId,
                    wsUsername, timers, msgEvents, connEvents, responses, now,
                    joins, rejects >>

\* GET /api/messages after the await: res.json(messages)
GetResume ==
    /\ microtasks # << >>
    /\ Head(microtasks).kind = "get"
    /\ LET k == Head(microtasks)
       IN  page' = [page EXCEPT ![k.page].status = "inflight",
                                ![k.page].data = k.messages]
    /\ microtasks' = Tail(microtasks)
    /\ UNCHANGED << messages, currentMessageId, clients, readyState, wsUserId,
                    wsUsername, timers, msgEvents, connEvents, responses, now,
                    joins, rejects >>

\* the response reaches the page: the query succeeds, initialMessages is the
\* body, and the page renders
PageQueryData(c) ==
    /\ page[c].mounted
    /\ page[c].status = "inflight"
    /\ LET after == [page[c] EXCEPT !.status = "success"]
       IN  page' = [page EXCEPT ![c] = InitialMessagesEffect(page[c], after)]
    /\ UNCHANGED << messages, currentMessageId, clients, readyState, wsUserId,
                    wsUsername, timers, microtasks, msgEvents, connEvents,
                    responses, now, joins, rejects >>

\* The server after construction, every peer being a Chat page that has just
\* left its join screen.
ClientInit ==
    /\ messages = << >>
    /\ currentMessageId = 1
    /\ clients = {}
    /\ readyState = [c \in Conns |-> "NONE"]
    /\ wsUserId = [c \in Conns |-> Undefined]
    /\ wsUsername = [c \in Conns |-> Undefined]
    /\ timers = << >>
    /\ microtasks = << >>
    /\ msgEvents = [id \in MessageIds |-> << >>]
    /\ connEvents = [c \in Conns |-> << >>]
    /\ responses = << >>
    /\ now = 0
    /\ joins = 0
    /\ rejects = 0
    /\ page = [c \in Conns |-> FreshPage]

\* the server with Chat pages as its peers
ClientNext ==
    \/ \E c \in Conns : Connect(c)
    \/ \E c \in Conns : PageJoin(c)
    \/ JoinResume
    \/ \E c \in Conns : WsClose(c)
    \/ \E body \in SubmitBodies : Submit(body)
    \/ PostResume
    \/ TimerFire
    \/ TimerResume
    \/ \E c \in Conns : GetMessages(c)
    \/ GetResume
    \/ \E c \in Conns : PageReceive(c)
    \/ \E c \in Conns : PageQueryData(c)

ClientSpec == ClientInit /\ [][ClientNext]_vars

\* The server right after one accepted submission of some text, with nobody
\* connected: the message is stored pending and its timer is set.
ClassifyInit ==
    \E text \in ClassifyTexts :
        LET message == NewMessage([userId |-> "u1", username |-> "Alice", text |-> text], 1, 0)
        IN  /\ messages = << message >>
            /\ currentMessageId = 2
            /\ clients = {}
            /\ readyState = [c \in Conns |-> "NONE"]
            /\ wsUserId = [c \in Conns |-> Undefined]
            /\ wsUsername = [c \in Conns |-> Undefined]
            /\ timers = << message >>
            /\ microtasks = << >>
            /\ msgEvents = [id \in MessageIds |->
                   IF id = 1
                   THEN << [type |-> "new_message", message |-> message, to |-> {},
                            reg |-> {}, by |-> [handler |-> "post", ws |-> 0]] >>
                   ELSE << >>]
            /\ connEvents = [c \in Conns |-> << >>]
            /\ responses = << [status |-> 200, success |-> TRUE, message |-> message] >>
            /\ now = 0
            /\ joins = 0
            /\ rejects = 0
            /\ page = [c \in Conns |-> NoPage]

\* the deferred task of that message
ClassifyNext ==
    \/ TimerFire
    \/ TimerResume

ClassifySpec == ClassifyInit /\ [][ClassifyNext]_vars

\* Stores of up to MaxMessages pending messages with ids 1, 2, ...
UpdateTexts == {TextHappy, TextBoth, TextPlain}
UpdateStores ==
    UNION { { [i \in 1..k |->
                 NewMessage([userId |-> "u1", username |-> "Alice", text |-> texts[i]], i, 0)] :
              texts \in [1..k -> UpdateTexts] } : k \in 0..MaxMessages }

\* MemStorage holding one of these stores, the timer of every stored message
\* pending, and possibly one more timer whose message has an id that the store
\* does not hold: the argument of updateMessageSentiment ranges over stored and
\* unknown ids.
UpdateInit ==
    \E store \in UpdateStores :
    \E extra \in {<< >>} \cup
                  { << NewMessage([userId |-> "u2", username |-> "Bob", text |-> text], id, 0) >> :
                      text \in UpdateTexts, id \in (Len(store) + 1)..(MaxMessages + 1) } :
        /\ messages = store
        /\ currentMessageId = Len(store) + 1
        /\ clients = {}
        /\ readyState = [c \in Conns |-> "NONE"]
        /\ wsUserId = [c \in Conns |-> Undefined]
        /\ wsUsername = [c \in Conns |-> Undefined]
        /\ timers = store \o extra
        /\ microtasks = << >>
        /\ msgEvents = [id \in MessageIds |->
               IF id <= Len(store)
               THEN << [type |-> "new_message", message |-> store[id], to |-> {},
                        reg |-> {}, by |-> [handler |-> "post", ws |-> 0]] >>
               ELSE << >>]
        /\ connEvents = [c \in Conns |-> << >>]
        /\ responses = [i \in 1..Len(store) |->
               [status |-> 200, success |-> TRUE, message |-> store[i]]]
        /\ now = 0
        /\ joins = 0
        /\ rejects = 0
        /\ page = [c \in Conns |-> NoPage]

\* the deferred tasks of these timers
UpdateNext ==
    \/ TimerFire
    \/ TimerResume

UpdateSpec == UpdateInit /\ [][UpdateNext]_vars

\* ---------------------------------------------------------------- properties
Count(seq, type) == Cardinality({i \in 1..Len(seq) : seq[i].type = type})
Accepted == {i \in 1..Len(responses) : responses[i].status = 200}
StoredIds == {messages[i].id : i \in 1..Len(messages)}

\* C1: every accepted submission returns a Message with sentiment pending and
\* an id strictly greater than every id assigned before it; no id is assigned
\* twice (the ids in the store are pairwise distinct and below the counter).
C1_FreshPendingId ==
    /\ \A i \in Accepted : responses[i].message.sentiment = "pending"
    /\ \A i \in Accepted : \A j \in Accepted :
          i < j => responses[i].message.id < responses[j].message.id
    /\ \A i \in 1..Len(messages) : \A j \in 1..Len(messages) :
          i < j => messages[i].id < messages[j].id
    /\ \A id \in StoredIds : id < currentMessageId
    /\ \A i \in Accepted : responses[i].message.id \in StoredIds

C1_Witness ==
    /\ Cardinality(Accepted) = 2
    /\ Len(messages) = 2

\* C2: for every message id, every sentiment_update broadcast naming it comes
\* after a new_message broadcast carrying it.
C2_NewMessageFirst ==
    \A id \in MessageIds : \A i \in 1..Len(msgEvents[id]) :
        msgEvents[id][i].type = "sentiment_update" =>
            \E j \in 1..(i - 1) :
                /\ msgEvents[id][j].type = "new_message"
                /\ msgEvents[id][j].message.id = msgEvents[id][i].messageId

C2_Witness ==
    \E id \in MessageIds :
        /\ Count(msgEvents[id], "sentiment_update") = 1
        /\ Count(msgEvents[id], "new_message") = 1
        /\ clients # {}

\* C3: for every message a submission created, a sentiment_update naming it is
\* eventually broadcast, and never more than one.
C3_ExactlyOneUpdate ==
    /\ \A id \in 1..MaxMessages :
          (id \in StoredIds) ~> (Count(msgEvents[id], "sentiment_update") = 1)
    /\ [](\A id \in MessageIds : Count(msgEvents[id], "sentiment_update") <= 1)

C3_Witness ==
    /\ Len(messages) = 2
    /\ \A id \in StoredIds : Count(msgEvents[id], "sentiment_update") = 1
    /\ clients = {}

Terminal == {"positive", "negative", "neutral"}

\* C4: a message enters the store pending; a step changes a stored sentiment only
\* from pending to a terminal label, so a terminal label never changes and
\* pending never comes back; and once no timer and no continuation is left,
\* every stored message has made that one change.
C4_PendingThenTerminalOnce ==
    /\ [][ /\ Len(messages') >= Len(messages)
           /\ \A i \in 1..Len(messages') :
                IF i <= Len(messages)
                THEN \/ messages'[i].sentiment = messages[i].sentiment
                     \/ /\ messages[i].sentiment = "pending"
                        /\ messages'[i].sentiment \in Terminal
                ELSE messages'[i].sentiment = "pending" ]_vars
    /\ [](timers = << >> /\ microtasks = << >> =>
             \A i \in 1..Len(messages) : messages[i].sentiment \in Terminal)

C4_Witness ==
    /\ Len(messages) = 2
    /\ messages[1].sentiment = "positive"
    /\ messages[2].sentiment = "negative"

\* the events of connection c's handlers of one type, in call order
EventsOf(c, type) == SelectSeq(connEvents[c], LAMBDA e : e.type = type)
JoinedConns == {c \in Conns : Len(EventsOf(c, "user_joined")) > 0}

\* C5: a join on a connection that is JOINED (it announced a user_joined that
\* carries a username) is a no-op: after that announcement the connection's
\* handlers send no further initial_messages and broadcast no further user_joined.
C5_RejoinIsNoOp ==
    \A c \in Conns : \A i \in 1..Len(connEvents[c]) : \A j \in 1..Len(connEvents[c]) :
        /\ i < j
        /\ connEvents[c][i].type = "user_joined"
        /\ Truthy(connEvents[c][i].username)
        => connEvents[c][j].type \notin {"initial_messages", "user_joined"}

\* C6: once a join has set the username of a connection, it stays: ws.username
\* is the username of the connection's first user_joined that carries one, and
\* every later announcement about the connection, its user_left too, names it.
C6_OneUsername ==
    \A c \in Conns : \A i \in 1..Len(connEvents[c]) :
        /\ connEvents[c][i].type = "user_joined"
        /\ Truthy(connEvents[c][i].username)
        => /\ wsUsername[c] = connEvents[c][i].username
           /\ \A j \in (i + 1)..Len(connEvents[c]) :
                 connEvents[c][j].type \in {"user_joined", "user_left"} =>
                     connEvents[c][j].username = connEvents[c][i].username

\* C7: the onlineCount of every user_joined and user_left is the number of
\* connections in the registry when the event is broadcast.
C7_OnlineCountIsRegistrySize ==
    \A c \in Conns : \A i \in 1..Len(connEvents[c]) :
        connEvents[c][i].type \in {"user_joined", "user_left"} =>
            connEvents[c][i].onlineCount = Cardinality(connEvents[c][i].reg)

\* a user_joined that counts a connection that never joined, and a user_left
\* that counts the registry after the removal
C7_Witness ==
    /\ \E c \in Conns : \E i \in 1..Len(connEvents[c]) :
          /\ connEvents[c][i].type = "user_joined"
          /\ connEvents[c][i].onlineCount = 2
          /\ Cardinality(JoinedConns) = 1
    /\ \E c \in Conns : \E i \in 1..Len(connEvents[c]) :
          /\ connEvents[c][i].type = "user_left"
          /\ connEvents[c][i].onlineCount = 1

\* C8: a closed connection is out of the registry, and its close handler
\* broadcast user_left if and only if the connection had processed a join.
C8_LeftIffJoined ==
    \A c \in Conns :
        readyState[c] = "CLOSED" =>
            /\ c \notin clients
            /\ Len(EventsOf(c, "user_left")) > 0 <=> Len(EventsOf(c, "initial_messages")) > 0

\* C9: the initial_messages a join handler sends goes to no connection but the
\* one whose join is being handled.
C9_SnapshotOnlyToJoiner ==
    \A c \in Conns : \A i \in 1..Len(connEvents[c]) :
        connEvents[c][i].type = "initial_messages" =>
            /\ connEvents[c][i].by.ws = c
            /\ connEvents[c][i].to \subseteq {c}

\* the joiner got its snapshot while another connection was registered and open
C9_Witness ==
    \E c \in Conns : \E i \in 1..Len(connEvents[c]) :
        /\ connEvents[c][i].type = "initial_messages"
        /\ connEvents[c][i].to = {c}
        /\ \E d \in connEvents[c][i].reg : d # c /\ readyState[d] = "OPEN"

\* C10: the payload of initial_messages is the store's list when it is sent:
\* every message created so far, in id order, each with the sentiment the
\* store holds for it at that moment.
C10_SnapshotIsStore ==
    \A c \in Conns : \A i \in 1..Len(connEvents[c]) :
        connEvents[c][i].type = "initial_messages" =>
            LET payload == connEvents[c][i].messages
                store == connEvents[c][i].by.store
            IN  /\ Len(payload) = Len(store)
                /\ \A n \in 1..Len(payload) :
                      /\ payload[n].id = n
                      /\ payload[n] = MapGet(store, n)

\* a snapshot of two messages, one analysed and one still pending
C10_Witness ==
    \E c \in Conns : \E i \in 1..Len(connEvents[c]) :
        /\ connEvents[c][i].type = "initial_messages"
        /\ Len(connEvents[c][i].messages) = 2
        /\ connEvents[c][i].messages[1].sentiment \in Terminal
        /\ connEvents[c][i].messages[2].sentiment = "pending"

\* a join frame that carries both userId and username
WellFormedJoin(message) ==
    /\ Field(message, "type") = "join"
    /\ Truthy(Field(message, "userId"))
    /\ Truthy(Field(message, "username"))

\* C11: when the handler of a well-formed join on a connection that has not
\* announced itself yet resumes, the user_joined it broadcasts carries the
\* username of that join and goes to every connection that is registered and
\* OPEN at that moment, the joining connection among them.
C11_JoinedToAllOpen ==
    [][ \A c \in Conns :
          /\ microtasks # << >>
          /\ Head(microtasks).kind = "join"
          /\ Head(microtasks).ws = c
          /\ WellFormedJoin(Head(microtasks).message)
          /\ EventsOf(c, "user_joined") = << >>
          /\ microtasks' = Tail(microtasks)
          => LET e == connEvents'[c][Len(connEvents'[c])]
             IN  /\ Len(connEvents'[c]) = Len(connEvents[c]) + 2
                 /\ e.type = "user_joined"
                 /\ e.username = Head(microtasks).message.username
                 /\ e.to = {d \in clients : readyState[d] = "OPEN"}
                 /\ (c \in clients /\ readyState[c] = "OPEN") => c \in e.to ]_vars

\* a user_joined that reached the joiner and another connection
C11_Witness ==
    \E c \in Conns : \E i \in 1..Len(connEvents[c]) :
        /\ connEvents[c][i].type = "user_joined"
        /\ Truthy(connEvents[c][i].username)
        /\ c \in connEvents[c][i].to
        /\ \E d \in connEvents[c][i].to : d # c

\* the last entry of a history that grew in this step
Last(seq) == seq[Len(seq)]

\* C12: every broadcast() call writes to exactly the connections that are in
\* the registry and OPEN when it iterates: a registered connection that is not
\* OPEN is skipped, a connection outside the registry gets nothing.
C12_BroadcastToRegisteredOpen ==
    [][ /\ \A id \in MessageIds :
              Len(msgEvents'[id]) > Len(msgEvents[id]) =>
                  Last(msgEvents'[id]).to = {c \in clients' : readyState'[c] = "OPEN"}
        /\ \A c \in Conns :
              (Len(connEvents'[c]) > Len(connEvents[c])
                  /\ Last(connEvents'[c]).type \in {"user_joined", "user_left"}) =>
                  Last(connEvents'[c]).to = {d \in clients' : readyState'[d] = "OPEN"} ]_vars

\* a broadcast that skipped a registered connection whose transport was closing
\* and still reached an open one
C12_Witness ==
    \E id \in MessageIds : \E i \in 1..Len(msgEvents[id]) :
        /\ msgEvents[id][i].to # {}
        /\ msgEvents[id][i].reg \ msgEvents[id][i].to # {}

\* C13: a submission the validation rejects is answered with status 400 and
\* changes nothing else: the store, the id counter, the timers, the pending
\* continuations and both histories are as before.  No stored message lacks a
\* field or has an empty text, and every id taken belongs to a stored message.
C13_RejectionHasNoEffect ==
    /\ [][ rejects' # rejects =>
              /\ responses' = Append(responses, Last(responses'))
              /\ Last(responses').status = 400
              /\ UNCHANGED << messages, currentMessageId, timers, microtasks,
                              msgEvents, connEvents, clients >> ]_vars
    /\ [](\A i \in 1..Len(messages) :
             /\ messages[i].text # << >>
             /\ messages[i].userId # Undefined
             /\ messages[i].username # Undefined)
    /\ [](Len(messages) = currentMessageId - 1)

\* a rejection that came after an accepted submission whose task is still pending
C13_Witness ==
    /\ rejects = 1
    /\ Len(responses) = 2
    /\ responses[1].status = 200
    /\ responses[2].status = 400
    /\ Len(timers) = 1

\* C14: a payload that cannot be parsed, or a join that lacks userId or
\* username, is ignored: no step sets the identity of a connection or suspends
\* a join handler (the only sender of initial_messages and user_joined) unless
\* the frame it handles is a join with both fields, and no such step removes
\* the connection from the registry or closes it.
C14_MalformedIgnored ==
    /\ [][ \A c \in Conns :
              \/ wsUserId'[c] # wsUserId[c]
              \/ wsUsername'[c] # wsUsername[c]
              \/ /\ Len(microtasks') > Len(microtasks)
                 /\ Last(microtasks').kind = "join"
                 /\ Last(microtasks').ws = c
              => /\ WellFormedJoin(Last(microtasks').message)
                 /\ c \in clients'
                 /\ readyState'[c] = "OPEN" ]_vars
    /\ [](\A c \in Conns : \A i \in 1..Len(connEvents[c]) :
             connEvents[c][i].type = "user_joined" => Truthy(connEvents[c][i].username))

\* the ids of a list of messages, in list order
IdsOf(list) == [i \in 1..Len(list) |-> list[i].id]

\* C15: in every reachable state the list getMessages returns is ordered by
\* createdAt, non-decreasing, and two messages with the same createdAt are in
\* ascending id order; the whole list is in ascending id order and holds every
\* stored message once.
C15_ListOrder ==
    LET list == getMessages(messages)
    IN  /\ Len(list) = Len(messages)
        /\ \A i \in 1..Len(list) : \A j \in 1..Len(list) :
              i < j => /\ list[i].createdAt <= list[j].createdAt
                       /\ list[i].createdAt = list[j].createdAt => list[i].id < list[j].id
                       /\ list[i].id < list[j].id
        /\ \A i \in 1..Len(messages) : \E j \in 1..Len(list) : list[j] = messages[i]

\* two messages created within the same tick of the clock
C15_Witness ==
    /\ Len(messages) = 2
    /\ messages[1].createdAt = messages[2].createdAt

\* s is a prefix of t
IsPrefix(s, t) == Len(s) <= Len(t) /\ \A i \in 1..Len(s) : s[i] = t[i]

\* C16: in every step the id sequence getMessages returns before the step is
\* a prefix of the one it returns after it; hence the list of any earlier
\* moment is a prefix of the list of any later one.
C16_AppendOnly ==
    [][ IsPrefix(IdsOf(getMessages(messages)), IdsOf(getMessages(messages'))) ]_vars

\* the first of two messages of the same tick has been relabelled
C16_Witness ==
    /\ Len(messages) = 2
    /\ messages[1].createdAt = messages[2].createdAt
    /\ messages[1].sentiment \in Terminal
    /\ IdsOf(getMessages(messages)) = << 1, 2 >>

\* word occurs in text, letter case ignored
Matches(list, text) ==
    \E k \in 1..Len(list) : \E i \in 0..(Len(text) - Len(list[k])) :
        \A j \in 1..Len(list[k]) : ToLowerChar(text[i + j]) = list[k][j]

\* C17: the label the deferred task stores for a text is positive exactly
\* when a positive word occurs in it (case ignored, as a substring) and no
\* negative word does, negative exactly when a negative word occurs and no
\* positive one does, and neutral exactly when both or neither occur.
C17_Classify ==
    \A i \in 1..Len(messages) :
        LET label == messages[i].sentiment
            pos == Matches(positiveWords, messages[i].text)
            neg == Matches(negativeWords, messages[i].text)
        IN  label # "pending" =>
                /\ label = "positive" <=> (pos /\ ~neg)
                /\ label = "negative" <=> (neg /\ ~pos)
                /\ label = "neutral" <=> (pos <=> neg)

\* a text with a word of each list, in upper and lower case, labelled neutral
C17_Witness ==
    /\ Len(messages) = 1
    /\ messages[1].text = <<"L","O","V","E","h","a","t","e">>
    /\ messages[1].sentiment = "neutral"

\* C18: the task a submission scheduled is never dropped: for every accepted
\* submission, at every moment, the timer of its message is still pending, or
\* its callback is under way with the store already updated, or the store
\* holds a terminal label and the sentiment_update has been broadcast; a
\* connection closing or failing changes none of this.
C18_TaskNeverCancelled ==
    \A i \in Accepted :
        LET id == responses[i].message.id
        IN  \/ \E k \in 1..Len(timers) : timers[k].id = id
            \/ /\ \E k \in 1..Len(microtasks) :
                      microtasks[k].kind = "timer" /\ microtasks[k].message.id = id
               /\ MapGet(messages, id).sentiment \in Terminal
            \/ /\ MapGet(messages, id).sentiment \in Terminal
               /\ Count(msgEvents[id], "sentiment_update") = 1

\* a message announced to a connection, analysed and announced again after
\* every connection had closed
C18_Witness ==
    \E id \in MessageIds :
        /\ Len(msgEvents[id]) = 2
        /\ msgEvents[id][1].type = "new_message"
        /\ msgEvents[id][1].to # {}
        /\ msgEvents[id][2].type = "sentiment_update"
        /\ msgEvents[id][2].reg = {}
        /\ MapGet(messages, id).sentiment \in Terminal
        /\ \A c \in Accepts : readyState[c] = "CLOSED"

\* C19: new_message events are broadcast in the order of their submissions,
\* which is the order of their ids: when the new_message of an id is
\* broadcast, the new_message of every lower id has been broadcast, no
\* new_message of that id or of a higher id has, and the event is written to
\* every connection that is registered and OPEN.  A connection that stays
\* open therefore receives them in strictly increasing id order.
C19_NewMessagesInIdOrder ==
    [][ \A id \in MessageIds :
          Count(msgEvents'[id], "new_message") > Count(msgEvents[id], "new_message") =>
              /\ Last(msgEvents'[id]).message.id = id
              /\ \A k \in MessageIds :
                    Count(msgEvents[k], "new_message") = IF k < id THEN 1 ELSE 0
              /\ \A c \in clients :
                    readyState[c] = "OPEN" => c \in Last(msgEvents'[id]).to ]_vars

\* two submissions of the same tick, both announced to the same open connection
C19_Witness ==
    /\ \E c \in Conns :
          /\ Len(msgEvents[1]) > 0 /\ c \in msgEvents[1][1].to
          /\ Len(msgEvents[2]) > 0 /\ c \in msgEvents[2][1].to
    /\ Len(responses) = 2
    /\ responses[1].message.createdAt = responses[2].message.createdAt

\* C20: a step puts a connection into the registry only by accepting it (the
\* handle was never accepted before and is OPEN after); a handle is accepted
\* once; and a closed connection is not in the registry.  So a connection a
\* close or an error took out of the registry never gets back in.
C20_NeverReRegistered ==
    /\ [][ \A c \in Conns :
              (c \in clients' /\ c \notin clients) =>
                  (readyState[c] = "NONE" /\ readyState'[c] = "OPEN") ]_vars
    /\ [][ \A c \in Conns : readyState[c] # "NONE" => readyState'[c] # "NONE" ]_vars
    /\ [](\A c \in Conns : readyState[c] = "CLOSED" => c \notin clients)

\* an error took the connection out while its join was suspended; afterwards
\* the join continued and a timer fired, and the connection is still out
C20_Witness ==
    \E c \in Conns :
        /\ c \notin clients
        /\ readyState[c] \in {"CLOSING", "CLOSED"}
        /\ \E i \in 1..Len(connEvents[c]) :
              connEvents[c][i].type = "user_joined" /\ c \notin connEvents[c][i].reg
        /\ \E id \in MessageIds : Count(msgEvents[id], "sentiment_update") = 1

\* C21: taking a connection out of the registry is idempotent.  A handler
\* that ends a connection which is still registered takes exactly that
\* connection out, so the size drops by one; the close handler of a connection
\* the error handler has already taken out leaves the registry as it is.
C21_RemovalIdempotent ==
    [][ \A c \in Conns :
          (readyState[c] # "CLOSED" /\ readyState'[c] = "CLOSED") =>
              IF c \in clients
              THEN /\ clients' = clients \ {c}
                   /\ Cardinality(clients') = Cardinality(clients) - 1
              ELSE clients' = clients ]_vars

\* the close handler ran for a connection its error handler had taken out
\* (its user_joined was broadcast without it), and the other one is still in
C21_Witness ==
    \E c \in Conns :
        /\ readyState[c] = "CLOSED"
        /\ \E i \in 1..Len(connEvents[c]) :
              connEvents[c][i].type = "user_joined" /\ c \notin connEvents[c][i].reg
        /\ clients = Conns \ {c}

\* C22: when a timer fires for an id the store does not hold, the update
\* returns undefined and the store is as before, and no sentiment_update is
\* ever broadcast for that id; a sentiment_update is broadcast only for a
\* stored id, carrying the label the store now holds for it.
C22_NotFoundIsSilent ==
    /\ [][ (timers # << >> /\ timers' = Tail(timers)
              /\ MapGet(messages, Head(timers).id) = NoMessage) =>
              /\ messages' = messages
              /\ Last(microtasks').updatedMessage = NoMessage ]_vars
    /\ [][ \A id \in MessageIds :
              msgEvents'[id] # msgEvents[id] =>
                  /\ id \in StoredIds
                  /\ Last(msgEvents'[id]).sentiment = MapGet(messages, id).sentiment
                  /\ Last(msgEvents'[id]).sentiment \in Terminal ]_vars
    /\ [](\A id \in MessageIds :
             id \notin StoredIds => Count(msgEvents[id], "sentiment_update") = 0)

\* the update has just answered undefined for an id a non-empty store lacks
C22_Witness ==
    /\ messages # << >>
    /\ microtasks # << >>
    /\ Head(microtasks).kind = "timer"
    /\ Head(microtasks).updatedMessage = NoMessage
    /\ Head(microtasks).message.id \notin StoredIds

\* the connection announced a join that carried a username
HasJoined(c) ==
    \E i \in 1..Len(connEvents[c]) :
        connEvents[c][i].type = "user_joined" /\ Truthy(connEvents[c][i].username)

\* C23: a connection that has joined and has been torn down (it was accepted
\* and a close or an error has taken it out of the registry) has had its
\* user_left broadcast, once; and no connection ever has two.
C23_LeftOnceHoweverEnded ==
    \A c \in Conns :
        /\ Len(EventsOf(c, "user_left")) <= 1
        /\ (HasJoined(c) /\ Truthy(wsUsername[c]) /\ readyState[c] # "NONE" /\ c \notin clients)
              => Len(EventsOf(c, "user_left")) = 1

\* C24: the announcements of one connection are in order.  A user_left of a
\* connection comes after a user_joined of that connection, and a user_joined
\* that names a user is broadcast only while the connection it is about is
\* still in the registry.
C24_JoinLeaveOrdered ==
    \A c \in Conns : \A i \in 1..Len(connEvents[c]) :
        /\ connEvents[c][i].type = "user_left" =>
              \E j \in 1..(i - 1) : connEvents[c][j].type = "user_joined"
        /\ (connEvents[c][i].type = "user_joined" /\ Truthy(connEvents[c][i].username)) =>
              c \in connEvents[c][i].reg

\* list holds a message with this id
HoldsId(list, id) == \E n \in 1..Len(list) : list[n].id = id

\* C25: a connection that is open and got a snapshot misses no message: every
\* stored message is in that snapshot, or its new_message was written to the
\* connection, or its POST handler has not broadcast it yet.  And a
\* new_message is never broadcast between the moment a join handler reads the
\* list and the moment it sends it, unless that list holds the message: so a
\* new_message for a message outside the snapshot arrives after the snapshot.
C25_NoMessageMissed ==
    /\ [](\A c \in Conns : \A i \in 1..Len(connEvents[c]) :
             (readyState[c] = "OPEN" /\ connEvents[c][i].type = "initial_messages"
                 /\ c \in connEvents[c][i].to) =>
                 \A id \in StoredIds :
                     \/ HoldsId(connEvents[c][i].messages, id)
                     \/ \E j \in 1..Len(msgEvents[id]) :
                           msgEvents[id][j].type = "new_message" /\ c \in msgEvents[id][j].to
                     \/ \E k \in 1..Len(microtasks) :
                           microtasks[k].kind = "post" /\ microtasks[k].message.id = id)
    /\ [][ \A id \in MessageIds :
              Count(msgEvents'[id], "new_message") > Count(msgEvents[id], "new_message") =>
                  \A k \in 1..Len(microtasks) :
                      microtasks[k].kind = "join" => HoldsId(microtasks[k].recentMessages, id) ]_vars

\* an open connection whose snapshot held the first message and which got the
\* second one as a new_message
C25_Witness ==
    \E c \in Conns : \E i \in 1..Len(connEvents[c]) :
        /\ readyState[c] = "OPEN"
        /\ connEvents[c][i].type = "initial_messages"
        /\ c \in connEvents[c][i].to
        /\ HoldsId(connEvents[c][i].messages, 1)
        /\ ~HoldsId(connEvents[c][i].messages, 2)
        /\ Len(msgEvents[2]) > 0
        /\ c \in msgEvents[2][1].to

\* the stored messages whose sentiment is pending
PendingIds == {messages[i].id : i \in {j \in 1..Len(messages) : messages[j].sentiment = "pending"}}

\* the messages whose timer is set and has not fired
TimerIds == {timers[k].id : k \in 1..Len(timers)}

\* the messages whose POST handler is suspended before it sets the timer
SuspendedPostIds ==
    {microtasks[k].message.id : k \in {j \in 1..Len(microtasks) : microtasks[j].kind = "post"}}

\* C27, as stated: a stored message is pending exactly when its timer is set
\* and has not fired, and there are as many such timers as pending messages.
C27_PendingIffTimerSet ==
    /\ PendingIds = TimerIds
    /\ Cardinality(PendingIds) = Len(timers)

\* C27, amended: a stored message is pending exactly when its deferred task
\* has not run yet, that is, when its timer is set and has not fired or its
\* POST handler has stored it and is suspended before setTimeout; the pending
\* messages are as many as these timers and suspended handlers together.
C27_PendingIffTaskNotRun ==
    /\ PendingIds = TimerIds \cup SuspendedPostIds
    /\ TimerIds \cap SuspendedPostIds = {}
    /\ Cardinality(PendingIds) = Len(timers) + Cardinality(SuspendedPostIds)
    /\ Cardinality(SuspendedPostIds) =
          Cardinality({k \in 1..Len(microtasks) : microtasks[k].kind = "post"})

\* one message waiting for its timer, another stored by a handler that has
\* not set the timer yet
C27_Witness ==
    /\ Cardinality(TimerIds) = 1
    /\ Cardinality(SuspendedPostIds) = 1
    /\ Cardinality(PendingIds) = 2

\* the label the word lists give a text
LabelOf(text) ==
    LET pos == Matches(positiveWords, text)
        neg == Matches(negativeWords, text)
    IN  IF pos /\ ~neg THEN "positive" ELSE IF neg /\ ~pos THEN "negative" ELSE "neutral"

\* C28: a stored message that is no longer pending carries the label of the
\* text its submission was accepted with, and every sentiment_update names
\* the label the store holds for its message.
C28_StoredLabelIsClassified ==
    /\ \A i \in Accepted :
          LET stored == MapGet(messages, responses[i].message.id)
          IN  stored.sentiment # "pending" =>
                  stored.sentiment = LabelOf(responses[i].message.text)
    /\ \A i \in 1..Len(messages) :
          messages[i].sentiment # "pending" => messages[i].sentiment = LabelOf(messages[i].text)
    /\ \A id \in MessageIds : \A j \in 1..Len(msgEvents[id]) :
          msgEvents[id][j].type = "sentiment_update" =>
              msgEvents[id][j].sentiment = MapGet(messages, id).sentiment

\* two messages of different texts, announced as positive and as negative
C28_Witness ==
    \E a \in MessageIds : \E b \in MessageIds :
        /\ Len(msgEvents[a]) = 2 /\ msgEvents[a][2].type = "sentiment_update"
        /\ msgEvents[a][2].sentiment = "positive"
        /\ Len(msgEvents[b]) = 2 /\ msgEvents[b][2].type = "sentiment_update"
        /\ msgEvents[b][2].sentiment = "negative"

\* C29: the step in which a timer fires and the update runs changes, in the
\* store, nothing but the sentiment of the message with the timer's id: that
\* message keeps its place, id, userId, username, text and createdAt, every
\* other message is as before, and so are the id counter and the registry.
C29_UpdateFrame ==
    [][ (timers # << >> /\ timers' = Tail(timers)) =>
          /\ Len(messages') = Len(messages)
          /\ \A i \in 1..Len(messages) :
                IF messages[i].id = Head(timers).id
                THEN messages'[i] = [messages[i] EXCEPT !.sentiment = messages'[i].sentiment]
                ELSE messages'[i] = messages[i]
          /\ currentMessageId' = currentMessageId
          /\ clients' = clients ]_vars

\* the first of two messages relabelled after the clock moved on, with a
\* connection registered
C29_Witness ==
    /\ Len(messages) = 2
    /\ messages[1].sentiment \in Terminal
    /\ messages[2].sentiment = "pending"
    /\ messages[1].createdAt < now
    /\ clients # {}

\* C30: a user_joined about a connection that is written to that connection
\* itself comes right after the initial_messages of the same join handler,
\* which was written to the connection too; both travel on the one socket, so
\* the connection receives its snapshot first.
C30_SnapshotBeforeOwnJoined ==
    \A c \in Conns : \A i \in 1..Len(connEvents[c]) :
        (connEvents[c][i].type = "user_joined" /\ c \in connEvents[c][i].to) =>
            /\ i > 1
            /\ connEvents[c][i - 1].type = "initial_messages"
            /\ connEvents[c][i - 1].by = connEvents[c][i].by
            /\ c \in connEvents[c][i - 1].to

\* a joiner that got a snapshot with a message in it and then its own user_joined
C30_Witness ==
    \E c \in Conns :
        /\ Len(connEvents[c]) = 2
        /\ connEvents[c][1].type = "initial_messages"
        /\ connEvents[c][1].messages # << >>
        /\ connEvents[c][1].to = {c}
        /\ connEvents[c][2].type = "user_joined"
        /\ c \in connEvents[c][2].to

\* id and sentiment of every message of a list, in order
IdAndSentiment(list) ==
    [i \in 1..Len(list) |-> [id |-> list[i].id, sentiment |-> list[i].sentiment]]

\* nothing is left to run or to arrive: no deferred task or continuation is
\* pending, and every page has handled every frame and its HTTP response
Settled ==
    /\ timers = << >>
    /\ microtasks = << >>
    /\ \A c \in Conns : page[c].mounted =>
            page[c].inbox = << >> /\ page[c].status = "success"

\* C26: once nothing is left to run or to arrive, the message list of every
\* page that is still connected and has joined holds the ids of the server's
\* list, in its order, each once, with the stored sentiment.
C26_ClientConvergence ==
    Settled =>
        \A c \in Conns :
            (page[c].mounted /\ readyState[c] = "OPEN" /\ c \in clients /\ HasJoined(c)) =>
                IdAndSentiment(page[c].messages) = IdAndSentiment(getMessages(messages))

====
